---- MODULE Spec2Model ----
(***************************************************************************)
(* A model of the nom-bencode decoder (src/src/lib.rs, src/src/errors.rs). *)
(*                                                                         *)
(* Input slices (&[u8]) are sequences of bytes 0..255.  Every slice the    *)
(* decoders handle is a suffix of the buffer handed to the entry point, so *)
(* a slice's length fixes its position in the buffer.  The nom 7           *)
(* combinators the code uses (char, digit1, take, recognize, pair, alt,    *)
(* delimited, preceded, many_till, many0, eof) are modelled by what they   *)
(* return: Ok((rest, out)), Err(Error(e)) (recoverable), Err(Failure(e))   *)
(* (unrecoverable).  A fourth outcome, Panic, stands for the unwinding of  *)
(* an expect()/unreachable!()/slice-index panic.                           *)
(***************************************************************************)
EXTENDS Integers, Sequences, FiniteSets, TLC

VARIABLES source, pc, fn, i, acc, result, log

vars == <<source, pc, fn, i, acc, result, log>>

-----------------------------------------------------------------------------
(* Bytes                                                                   *)

\* The ASCII code of the characters the grammar and the tests use.
Byte(c) ==
    CASE c = "+" -> 43
      [] c = "-" -> 45
      [] c = "0" -> 48
      [] c = "1" -> 49
      [] c = "2" -> 50
      [] c = "3" -> 51
      [] c = "9" -> 57
      [] c = ":" -> 58
      [] c = "a" -> 97
      [] c = "b" -> 98
      [] c = "d" -> 100
      [] c = "e" -> 101
      [] c = "i" -> 105
      [] c = "l" -> 108
      [] c = "x" -> 120
      [] c = "FF" -> 255

\* A byte string written as a tuple of characters.
Str(cs) == [k \in DOMAIN cs |-> Byte(cs[k])]

\* A byte string of ASCII digits written as a tuple of digit values.
Digits(ds) == [k \in DOMAIN ds |-> Byte("0") + ds[k]]

\* AsChar for u8 / is_dec_digit: the bytes 0x30..=0x39.
is_dec_digit(b) == b >= Byte("0") /\ b <= Byte("9")

Drop(s, n) == SubSeq(s, n + 1, Len(s))

Take(s, n) == SubSeq(s, 1, n)

-----------------------------------------------------------------------------
(* Errors and results                                                      *)

\* BencodeError::Nom(input, kind), made by ParseError::from_error_kind.
Nom(input, kind) == [variant |-> "Nom", input |-> input, info |-> kind]

InvalidInteger(input) == [variant |-> "InvalidInteger", input |-> input, info |-> ""]

InvalidBytesLength(input) == [variant |-> "InvalidBytesLength", input |-> input, info |-> ""]

ParseIntError(input, e) == [variant |-> "ParseIntError", input |-> input, info |-> e]

\* ParseError::append(_, _, other) = other.
append(input, kind, other) == other

Ok(rest, out) == [tag |-> "Ok", rest |-> rest, out |-> out, log |-> <<>>]

Error(e) == [tag |-> "Error", err |-> e, log |-> <<>>]

Failure(e) == [tag |-> "Failure", err |-> e, log |-> <<>>]

Panic(site) == [tag |-> "Panic", site |-> site, log |-> <<>>]

\* An Err of either kind.
Failed(r) == r.tag \in {"Error", "Failure"}

\* impl From<BencodeError<I>> for nom::Err<BencodeError<I>>, applied by `?`.
from_bencode_error(e) == IF e.variant = "Nom" THEN Error(e) ELSE Failure(e)

WithLog(r, lg) == [r EXCEPT !.log = lg]

-----------------------------------------------------------------------------
(* Values                                                                  *)

Bytes(b) == [t |-> "Bytes", b |-> b]

Integer(n) == [t |-> "Integer", n |-> n]

List(l) == [t |-> "List", l |-> l]

Dictionary(m) == [t |-> "Dictionary", m |-> m]

-----------------------------------------------------------------------------
(* 64-bit integers.  TLC's integers are 32 bits wide, so a 64-bit          *)
(* magnitude is kept as three limbs <<h, m, l>> in base 10^8, denoting     *)
(* h * 10^16 + m * 10^8 + l.                                               *)

Limb == 10 ^ 8

Zero == <<0, 0, 0>>

\* i64::MAX = 2^63 - 1 = 9223372036854775807.
I64Max == <<922, 33720368, 54775807>>

\* -i64::MIN = 2^63 = 9223372036854775808.
I64MinMag == <<922, 33720368, 54775808>>

\* u64::MAX = 2^64 - 1 = 18446744073709551615.
U64Max == <<1844, 67440737, 9551615>>

MagLeq(a, b) ==
    \/ a[1] < b[1]
    \/ a[1] = b[1] /\ a[2] < b[2]
    \/ a[1] = b[1] /\ a[2] = b[2] /\ a[3] <= b[3]

\* mag * 10
MagMul10(mag) ==
    LET l == mag[3] * 10
        m == mag[2] * 10 + (l \div Limb)
        h == mag[1] * 10 + (m \div Limb)
    IN  <<h, m % Limb, l % Limb>>

\* mag + x, for a digit x
MagAdd(mag, x) ==
    LET l == mag[3] + x
        m == mag[2] + (l \div Limb)
        h == mag[1] + (m \div Limb)
    IN  <<h, m % Limb, l % Limb>>

\* A signed 64-bit number: there is no negative zero.
I64(neg, mag) == [neg |-> neg /\ mag # Zero, mag |-> mag]

\* The digit loop of core::num's from_str_radix(src, 10): result starts at
\* 0; for every byte, checked_mul(10), to_digit, then checked_add (or
\* checked_sub for a negative number); `limit` is the largest magnitude the
\* type holds on that side and `overflow` the error kind of that side.
RECURSIVE from_str_loop(_, _, _, _)
from_str_loop(digits, mag, limit, overflow) ==
    IF digits = <<>> THEN [ok |-> TRUE, mag |-> mag]
    ELSE LET c   == digits[1]
             mul == MagMul10(mag)
         IN  IF ~is_dec_digit(c) THEN [ok |-> FALSE, kind |-> "InvalidDigit"]
             ELSE IF ~MagLeq(mul, limit) THEN [ok |-> FALSE, kind |-> overflow]
             ELSE LET sum == MagAdd(mul, c - Byte("0"))
                  IN  IF ~MagLeq(sum, limit) THEN [ok |-> FALSE, kind |-> overflow]
                      ELSE from_str_loop(Tail(digits), sum, limit, overflow)

\* from_str with i64::MAX as the limit of both signs.
i64_from_str_symmetric(src) ==
    IF src = <<>> THEN [ok |-> FALSE, kind |-> "Empty"]
    ELSE IF src[1] \in {Byte("+"), Byte("-")} /\ Len(src) = 1
         THEN [ok |-> FALSE, kind |-> "InvalidDigit"]
    ELSE LET neg == src[1] = Byte("-")
             ds  == IF src[1] \in {Byte("+"), Byte("-")} THEN Tail(src) ELSE src
             r   == from_str_loop(ds, Zero, I64Max, "PosOverflow")
         IN  IF r.ok THEN [ok |-> TRUE, val |-> I64(neg, r.mag)] ELSE r

\* <i64 as FromStr>::from_str: an optional sign, then the digit loop.
i64_from_str(src) ==
    IF src = <<>> THEN [ok |-> FALSE, kind |-> "Empty"]
    ELSE IF src[1] \in {Byte("+"), Byte("-")} /\ Len(src) = 1
         THEN [ok |-> FALSE, kind |-> "InvalidDigit"]
    ELSE IF src[1] = Byte("+")
         THEN LET r == from_str_loop(Tail(src), Zero, I64Max, "PosOverflow")
              IN  IF r.ok THEN [ok |-> TRUE, val |-> I64(FALSE, r.mag)] ELSE r
    ELSE IF src[1] = Byte("-")
         THEN LET r == from_str_loop(Tail(src), Zero, I64MinMag, "NegOverflow")
              IN  IF r.ok THEN [ok |-> TRUE, val |-> I64(TRUE, r.mag)] ELSE r
    ELSE LET r == from_str_loop(src, Zero, I64Max, "PosOverflow")
         IN  IF r.ok THEN [ok |-> TRUE, val |-> I64(FALSE, r.mag)] ELSE r

\* <u64 as FromStr>::from_str: '-' is no sign of an unsigned type.
u64_from_str(src) ==
    IF src = <<>> THEN [ok |-> FALSE, kind |-> "Empty"]
    ELSE IF src[1] \in {Byte("+"), Byte("-")} /\ Len(src) = 1
         THEN [ok |-> FALSE, kind |-> "InvalidDigit"]
    ELSE IF src[1] = Byte("+")
         THEN from_str_loop(Tail(src), Zero, U64Max, "PosOverflow")
    ELSE from_str_loop(src, Zero, U64Max, "PosOverflow")

\* std::str::from_utf8(v).is_ok(): v is well-formed UTF-8.
RECURSIVE from_utf8_ok(_)
from_utf8_ok(v) ==
    LET Cont(b) == b >= 128 /\ b <= 191
    IN  IF v = <<>> THEN TRUE
        ELSE IF v[1] < 128 THEN from_utf8_ok(Tail(v))
        ELSE IF v[1] >= 194 /\ v[1] <= 223
             THEN Len(v) >= 2 /\ Cont(v[2]) /\ from_utf8_ok(Drop(v, 2))
        ELSE IF v[1] >= 224 /\ v[1] <= 239
             THEN /\ Len(v) >= 3
                  /\ Cont(v[2])
                  /\ (v[1] = 224 => v[2] >= 160)
                  /\ (v[1] = 237 => v[2] <= 159)
                  /\ Cont(v[3])
                  /\ from_utf8_ok(Drop(v, 3))
        ELSE IF v[1] >= 240 /\ v[1] <= 244
             THEN /\ Len(v) >= 4
                  /\ Cont(v[2])
                  /\ (v[1] = 240 => v[2] >= 144)
                  /\ (v[1] = 244 => v[2] <= 143)
                  /\ Cont(v[3])
                  /\ Cont(v[4])
                  /\ from_utf8_ok(Drop(v, 4))
        ELSE FALSE

\* str::starts_with on the bytes of an ASCII string.
starts_with(s, prefix) == Len(s) >= Len(prefix) /\ Take(s, Len(prefix)) = prefix

-----------------------------------------------------------------------------
(* nom combinators                                                         *)

\* character::complete::char(c)
char(c, input) ==
    IF Len(input) > 0 /\ input[1] = Byte(c)
    THEN Ok(Tail(input), c)
    ELSE Error(Nom(input, "Char"))

\* character::complete::digit1: the longest prefix of ASCII digits, at
\* least one of them.
digit1(input) ==
    LET stop == {k \in 1..Len(input) : ~is_dec_digit(input[k])}
        n    == IF stop = {} THEN Len(input)
                ELSE (CHOOSE k \in stop : \A j \in stop : k <= j) - 1
    IN  IF n = 0 THEN Error(Nom(input, "Digit"))
        ELSE Ok(Drop(input, n), Take(input, n))

\* recognize(pair(char(sign), digit1))
recognize_signed(sign, input) ==
    LET s == char(sign, input)
    IN  IF s.tag # "Ok" THEN s
        ELSE LET d == digit1(s.rest)
             IN  IF d.tag # "Ok" THEN d
                 ELSE Ok(d.rest, Take(input, Len(input) - Len(d.rest)))

\* InputTake::take_split on a slice: split_at(count) panics past the end.
take_split(input, count) ==
    IF count > Len(input) THEN Panic("split_at")
    ELSE Ok(Drop(input, count), Take(input, count))

\* slice_index without the comparison with the length of the slice.
slice_index_unchecked(input, count) ==
    IF count[1] = 0 /\ count[2] = 0 THEN count[3] ELSE -1

\* InputIter::slice_index on a slice: Ok(count) when the slice has at
\* least count bytes, Err(Needed) (here -1) otherwise.
slice_index(input, count) ==
    IF count[1] = 0 /\ count[2] = 0 /\ Len(input) >= count[3] THEN count[3] ELSE -1

\* take that hands out what is left when the input is too short.
take_partial(count, input) ==
    LET index == slice_index(input, count)
    IN  IF index = -1 THEN Ok(<<>>, input)
        ELSE take_split(input, index)

\* bytes::complete::take(count)
take(count, input) ==
    LET index == slice_index(input, count)
    IN  IF index = -1 THEN Error(Nom(input, "Eof"))
        ELSE take_split(input, index)

\* combinator::eof
eof(input) ==
    IF Len(input) = 0 THEN Ok(input, input) ELSE Error(Nom(input, "Eof"))

-----------------------------------------------------------------------------
(* The primitive decoders                                                  *)

\* alt((recognize(pair(char('+'), digit1)),
\*      recognize(pair(char('-'), digit1)), digit1)): the first alternative
\* that does not end in Error; the last alternative's error otherwise.
integer_text(input) ==
    LET plus == recognize_signed("+", input)
    IN  IF plus.tag # "Error" THEN plus
        ELSE LET minus == recognize_signed("-", input)
             IN  IF minus.tag # "Error" THEN minus
                 ELSE LET plain == digit1(input)
                      IN  IF plain.tag # "Error" THEN plain
                          ELSE Error(append(input, "Alt", plain.err))

\* The test without its "-0" half.
noncanonical_unsigned(value_str) ==
    starts_with(value_str, Str(<<"0">>)) /\ Len(value_str) > 1

\* The canonical-form test of parse_integer.
noncanonical(value_str) ==
    \/ starts_with(value_str, Str(<<"-", "0">>))
    \/ starts_with(value_str, Str(<<"0">>)) /\ Len(value_str) > 1

\* parse_integer returning the input it was given as the remainder.
parse_integer_stuck(start_inp) ==
    LET open == char("i", start_inp)
    IN  IF open.tag # "Ok" THEN open
        ELSE LET text == integer_text(open.rest)
             IN  IF text.tag # "Ok" THEN text
                 ELSE LET close == char("e", text.rest)
                      IN  IF close.tag # "Ok" THEN close
                          ELSE IF noncanonical(text.out)
                               THEN Failure(InvalidInteger(start_inp))
                          ELSE LET value_integer == i64_from_str(text.out)
                               IN  IF ~value_integer.ok
                                   THEN from_bencode_error(
                                            ParseIntError(close.rest, value_integer.kind))
                                   ELSE Ok(start_inp, Integer(value_integer.val))

\* Value::parse_integer
parse_integer(start_inp) ==
    LET open == char("i", start_inp)
    IN  IF open.tag # "Ok" THEN open
        ELSE LET text == integer_text(open.rest)
             IN  IF text.tag # "Ok" THEN text
                 ELSE LET close == char("e", text.rest)
                      IN  IF close.tag # "Ok" THEN close
                          ELSE LET inp       == close.rest
                                   value_str == text.out
                               IN  IF ~from_utf8_ok(value_str) THEN Panic("parse_integer expect")
                                   ELSE IF noncanonical(value_str)
                                        THEN Failure(InvalidInteger(start_inp))
                                   ELSE LET value_integer == i64_from_str(value_str)
                                        IN  IF ~value_integer.ok
                                            THEN from_bencode_error(
                                                     ParseIntError(inp, value_integer.kind))
                                            ELSE Ok(inp, Integer(value_integer.val))

\* Value::parse_bytes
parse_bytes(start_inp) ==
    LET digits == digit1(start_inp)
    IN  IF digits.tag # "Ok" THEN digits
        ELSE LET colon == char(":", digits.rest)
             IN  IF colon.tag # "Ok" THEN colon
                 ELSE LET inp == colon.rest
                      IN  IF ~from_utf8_ok(digits.out) THEN Panic("parse_bytes expect")
                          ELSE LET length == u64_from_str(digits.out)
                               IN  IF ~length.ok
                                   THEN from_bencode_error(ParseIntError(inp, length.kind))
                                   ELSE IF length.mag = Zero
                                        THEN from_bencode_error(InvalidBytesLength(start_inp))
                                   ELSE LET taken == take(length.mag, inp)
                                        IN  IF taken.tag # "Ok" THEN taken
                                            ELSE Ok(taken.rest, Bytes(taken.out))

-----------------------------------------------------------------------------
(* The composite decoders.  Every result carries a log (not program state) *)
(* of what the combinators did while producing it: one "dispatch" entry    *)
(* per use of the four-way alt and one "loop" entry per many_till /        *)
(* many0, in the order in which they finished.                             *)

NoError == [variant |-> "None", input |-> <<>>, info |-> ""]

\* What one decoder returned, without the value.
Outcome(r) ==
    [tag |-> r.tag, err |-> IF r.tag \in {"Error", "Failure"} THEN r.err ELSE NoError]

\* The four-way alt applied to `input` tried the decoders `tried` in that
\* order, they returned `outs`, and the alt returned r.
Dispatch(input, tried, outs, r) ==
    [ev    |-> "dispatch",
     at    |-> Len(input),
     first |-> IF input = <<>> THEN -1 ELSE input[1],
     tried |-> tried,
     outs  |-> [k \in DOMAIN outs |-> Outcome(outs[k])],
     tag   |-> r.tag,
     err   |-> Outcome(r).err]

\* A repetition entered with `start` left as input completed `iters`
\* iterations and stopped with `stop` left.
Loop(start, iters, stop) ==
    [ev |-> "loop", at |-> Len(start), iters |-> iters, stop |-> Len(stop)]

\* An insert that keeps the value of a key that is present.
insert_keep_first(map, key, value) ==
    [k \in (DOMAIN map) \cup {key} |-> IF k \in DOMAIN map THEN map[k] ELSE value]

\* HashMap::insert: a key that is present keeps its entry and gets the new
\* value.
insert(map, key, value) ==
    [k \in (DOMAIN map) \cup {key} |-> IF k = key THEN value ELSE map[k]]

\* value.0.into_iter().map(|x| ..).collect() of parse_dict: the pairs are
\* inserted in input order; a key that is no Value::Bytes is the
\* unreachable!() of the closure.
RECURSIVE collect(_, _)
collect(pairs, map) ==
    IF pairs = <<>> THEN [ok |-> TRUE, map |-> map]
    ELSE LET x == pairs[1]
         IN  IF x[1].t # "Bytes" THEN [ok |-> FALSE]
             ELSE collect(Tail(pairs), insert(map, x[1].b, x[2]))

\* The one element of a singleton: Only({e(x) : x \in {v}}) is e with x
\* bound to the value of v, computed once.
Only(S) == CHOOSE x \in S : TRUE

RECURSIVE alt_value(_)
RECURSIVE parse_list(_)
RECURSIVE parse_dict(_)
RECURSIVE many_till_values(_, _, _, _)
RECURSIVE many_till_pairs(_, _, _, _)

\* An alt that goes on to the next decoder after an Err(Failure) too.
alt_value_retry(input) ==
    Only({
      IF ~Failed(b)
      THEN WithLog(b, b.log \o <<Dispatch(input, <<"parse_bytes">>, <<b>>, b)>>)
      ELSE Only({
        IF ~Failed(n)
        THEN WithLog(n, b.log \o n.log
                 \o <<Dispatch(input, <<"parse_bytes", "parse_integer">>, <<b, n>>, n)>>)
        ELSE Only({
          IF ~Failed(l)
          THEN WithLog(l, b.log \o n.log \o l.log
                   \o <<Dispatch(input, <<"parse_bytes", "parse_integer", "parse_list">>,
                                 <<b, n, l>>, l)>>)
          ELSE Only({
            WithLog(d, b.log \o n.log \o l.log \o d.log
                      \o <<Dispatch(input,
                             <<"parse_bytes", "parse_integer", "parse_list", "parse_dict">>,
                             <<b, n, l, d>>, d)>>)
            : d \in {parse_dict(input)} })
          : l \in {parse_list(input)} })
        : n \in {parse_integer(input)} })
      : b \in {parse_bytes(input)} })

\* alt((Self::parse_bytes, Self::parse_integer, Self::parse_list,
\*      Self::parse_dict)): each decoder is tried on the same input, in this
\* order, until one returns something other than Err(Error); when all four
\* return Err(Error) the alt returns the last one's error (ParseError::or
\* keeps the later error and BencodeError::append keeps it too).
alt_value(input) ==
    Only({
      IF b.tag # "Error"
      THEN WithLog(b, b.log \o <<Dispatch(input, <<"parse_bytes">>, <<b>>, b)>>)
      ELSE Only({
        IF n.tag # "Error"
        THEN WithLog(n, b.log \o n.log
                 \o <<Dispatch(input, <<"parse_bytes", "parse_integer">>, <<b, n>>, n)>>)
        ELSE Only({
          IF l.tag # "Error"
          THEN WithLog(l, b.log \o n.log \o l.log
                   \o <<Dispatch(input, <<"parse_bytes", "parse_integer", "parse_list">>,
                                 <<b, n, l>>, l)>>)
          ELSE Only({
            WithLog(IF d.tag # "Error" THEN d ELSE Error(append(input, "Alt", d.err)),
                    b.log \o n.log \o l.log \o d.log
                      \o <<Dispatch(input,
                             <<"parse_bytes", "parse_integer", "parse_list", "parse_dict">>,
                             <<b, n, l, d>>,
                             IF d.tag # "Error" THEN d
                             ELSE Error(append(input, "Alt", d.err)))>>)
            : d \in {parse_dict(input)} })
          : l \in {parse_list(input)} })
        : n \in {parse_integer(input)} })
      : b \in {parse_bytes(input)} })

\* A turn that reports every Err of f as its own ManyTill error.
many_till_turn_masking(start, inp, res, lg, f) ==
    IF f.tag # "Ok"
    THEN [more |-> FALSE,
          r |-> WithLog(Error(Nom(inp, "ManyTill")),
                        lg \o f.log \o <<Loop(start, Len(res), inp)>>)]
    ELSE IF Len(f.rest) = Len(inp)
    THEN [more |-> FALSE,
          r |-> WithLog(Error(Nom(f.rest, "ManyTill")),
                        lg \o f.log \o <<Loop(start, Len(res), inp)>>)]
    ELSE [more |-> TRUE, inp |-> f.rest, res |-> Append(res, f.out), lg |-> lg \o f.log]

\* One turn of many_till(f, char('e')) after the terminator did not match
\* and f returned: an Err ends the loop (the error of an Err(Error) goes
\* through append), an Ok that consumed nothing is the ManyTill error, and
\* any other Ok is pushed; `more` says whether the loop goes on.
many_till_turn(start, inp, res, lg, f) ==
    IF f.tag = "Error"
    THEN [more |-> FALSE,
          r |-> WithLog(Error(append(inp, "ManyTill", f.err)),
                        lg \o f.log \o <<Loop(start, Len(res), inp)>>)]
    ELSE IF f.tag # "Ok"
    THEN [more |-> FALSE, r |-> WithLog(f, lg \o f.log \o <<Loop(start, Len(res), inp)>>)]
    ELSE IF Len(f.rest) = Len(inp)
    THEN [more |-> FALSE,
          r |-> WithLog(Error(Nom(f.rest, "ManyTill")),
                        lg \o f.log \o <<Loop(start, Len(res), inp)>>)]
    ELSE [more |-> TRUE, inp |-> f.rest, res |-> Append(res, f.out), lg |-> lg \o f.log]

\* many_till(alt((..)), char('e')) on `inp`, entered with `start`: the
\* terminator is tried first; then one value.
many_till_values(start, inp, res, lg) ==
    IF char("e", inp).tag = "Ok"
    THEN WithLog(Ok(char("e", inp).rest, res), lg \o <<Loop(start, Len(res), Tail(inp))>>)
    ELSE Only({ IF t.more THEN many_till_values(start, t.inp, t.res, t.lg) ELSE t.r
                : t \in {many_till_turn(start, inp, res, lg, alt_value(inp))} })

\* Value::parse_list
parse_list(start_inp) ==
    IF char("l", start_inp).tag # "Ok" THEN char("l", start_inp)
    ELSE Only({ IF value.tag # "Ok" THEN value
                ELSE WithLog(Ok(value.rest, List(value.out)), value.log)
                : value \in {many_till_values(Tail(start_inp), Tail(start_inp), <<>>, <<>>)} })

\* pair(Self::parse_bytes, alt((..))): a key, then a dispatched value.
pair_key_value(inp) ==
    Only({ IF key.tag # "Ok" THEN key
           ELSE Only({ IF val.tag # "Ok" THEN val
                       ELSE WithLog(Ok(val.rest, <<key.out, val.out>>), val.log)
                       : val \in {alt_value(key.rest)} })
           : key \in {parse_bytes(inp)} })

\* many_till(pair(Self::parse_bytes, alt((..))), char('e'))
many_till_pairs(start, inp, res, lg) ==
    IF char("e", inp).tag = "Ok"
    THEN WithLog(Ok(char("e", inp).rest, res), lg \o <<Loop(start, Len(res), Tail(inp))>>)
    ELSE Only({ IF t.more THEN many_till_pairs(start, t.inp, t.res, t.lg) ELSE t.r
                : t \in {many_till_turn(start, inp, res, lg, pair_key_value(inp))} })

\* Value::parse_dict
parse_dict(start_inp) ==
    IF char("d", start_inp).tag # "Ok" THEN char("d", start_inp)
    ELSE Only({ IF value.tag # "Ok" THEN value
                ELSE Only({ IF ~map.ok
                            THEN WithLog(Panic("parse_dict unreachable"), value.log)
                            ELSE WithLog(Ok(value.rest, Dictionary(map.map)), value.log)
                            : map \in {collect(value.out, <<>>)} })
                : value \in {many_till_pairs(Tail(start_inp), Tail(start_inp), <<>>, <<>>)} })

-----------------------------------------------------------------------------
(* Input buffers                                                           *)

\* The longest buffer of the exhaustive family.
MaxLen == 3

\* The most digits of an enumerated digit string.
MaxDigits == 2

\* The longest enumerated payload behind a length prefix.
MaxPayload == 2

\* The most elements of an enumerated list.
MaxElems == 2

\* The most pairs of an enumerated dictionary.
MaxPairs == 2

\* The most top-level values of an enumerated buffer.
MaxVals == 2

\* The deepest enumerated nesting of brackets.
MaxDepth == 3

SeqsUpTo(S, n) == UNION {[1..k -> S] : k \in 0..n}

RECURSIVE Flatten(_)
Flatten(ss) == IF ss = <<>> THEN <<>> ELSE ss[1] \o Flatten(Tail(ss))

Prefixes(s) == {Take(s, k) : k \in 0..Len(s)}

Rep(c, n) == [k \in 1..n |-> Byte(c)]

\* Every byte string of at most MaxLen bytes over the bytes that matter to
\* the grammar, one letter and one byte that is no ASCII.
Alphabet == {Byte(c) : c \in {"i", "l", "d", "e", "+", "-", "0", "1", ":", "a", "FF"}}

ShortInputs == SeqsUpTo(Alphabet, MaxLen)

\* i, an optional sign, digits, e, and something behind: short digit
\* strings and the decimal numbers around the ends of the 64-bit ranges.
Boundaries ==
    { Digits(<<9,2,2,3,3,7,2,0,3,6,8,5,4,7,7,5,8,0,6>>),
      Digits(<<9,2,2,3,3,7,2,0,3,6,8,5,4,7,7,5,8,0,7>>),
      Digits(<<9,2,2,3,3,7,2,0,3,6,8,5,4,7,7,5,8,0,8>>),
      Digits(<<9,2,2,3,3,7,2,0,3,6,8,5,4,7,7,5,8,0,9>>),
      Digits(<<9,2,2,3,3,7,2,0,3,6,8,5,4,7,7,5,8,1,0>>),
      Digits(<<1,0,0,0,0,0,0,0,0,0,0,0,0,0,0,0,0,0,0>>),
      Digits(<<9,9,9,9,9,9,9,9,9,9,9,9,9,9,9,9,9,9,9>>),
      Digits(<<1,8,4,4,6,7,4,4,0,7,3,7,0,9,5,5,1,6,1,5>>),
      Digits(<<1,8,4,4,6,7,4,4,0,7,3,7,0,9,5,5,1,6,1,6>>),
      Digits(<<3,3,3,3,3,3>>),
      Digits(<<0,0,4,0>>) }

DigitStrings ==
    (SeqsUpTo({Byte("0"), Byte("1"), Byte("9")}, MaxDigits) \ {<<>>}) \cup Boundaries

IntegerInputs ==
    { Str(<<"i">>) \o sign \o ds \o Str(<<"e">>) \o tail :
        sign \in {<<>>, Str(<<"-">>), Str(<<"+">>)},
        ds   \in DigitStrings,
        tail \in {<<>>, Str(<<"1", ":", "a">>)} }

\* A length, a colon and a payload.
Lengths ==
    { Str(<<"0">>), Str(<<"1">>), Str(<<"2">>), Str(<<"3">>), Str(<<"0", "0">>),
      Str(<<"0", "2">>), Str(<<"1", "0">>),
      Digits(<<1,8,4,4,6,7,4,4,0,7,3,7,0,9,5,5,1,6,1,5>>),
      Digits(<<1,8,4,4,6,7,4,4,0,7,3,7,0,9,5,5,1,6,1,6>>) }

BytesInputs ==
    { len \o Str(<<":">>) \o payload :
        len \in Lengths,
        payload \in SeqsUpTo({Byte("a"), Byte("e"), Byte("FF")}, MaxPayload + 1) }

\* Lists and dictionaries of leaves and of small composites, and every
\* truncation of them.
Leaves ==
    { Str(<<"i", "1", "e">>), Str(<<"i", "-", "2", "e">>),
      Str(<<"1", ":", "a">>), Str(<<"2", ":", "a", "b">>) }

Keys == { Str(<<"1", ":", "a">>), Str(<<"2", ":", "a", "b">>) }

DictValues == { Str(<<"i", "1", "e">>), Str(<<"1", ":", "a">>), Str(<<"l", "e">>) }

Nested ==
    { Str(<<"l", "e">>), Str(<<"d", "e">>), Str(<<"l", "i", "1", "e", "e">>),
      Str(<<"d", "1", ":", "a", "l", "e", "e">>) }

ListInputs ==
    { Str(<<"l">>) \o Flatten(vs) \o Str(<<"e">>) : vs \in SeqsUpTo(Leaves \cup Nested, MaxElems) }

DictInputs ==
    { Str(<<"d">>) \o Flatten(ps) \o Str(<<"e">>) :
        ps \in SeqsUpTo({k \o v : k \in Keys, v \in DictValues}, MaxPairs) }

TruncatedInputs == UNION {Prefixes(s) : s \in ListInputs \cup DictInputs}

\* Brackets that are opened and not all closed, or closed too often.
DeepInputs ==
    { Rep(o, k) \o Rep("e", j) : o \in {"l", "d"}, k \in 0..MaxDepth, j \in 0..MaxDepth + 1 }

\* Several top-level values and what may follow the last one.
Tails ==
    { <<>>, Str(<<"i">>), Str(<<"x">>), Str(<<"e">>), Str(<<"1", ":">>), Str(<<"l">>),
      Str(<<"d", "1", ":", "a">>), Str(<<"i", "+", "1", "e">>), Str(<<"i", "0", "3", "e">>),
      Str(<<"0", ":">>) }

TopInputs ==
    { Flatten(vs) \o tail : vs \in SeqsUpTo(Leaves \cup Nested, MaxVals), tail \in Tails }

\* The buffers of the repository's tests.
TestInputs ==
    { Str(<<"l", "i", "3", "e", "e">>), Str(<<"1", ":", "a">>), Str(<<"1", "2", "3">>),
      Str(<<"l", "1", "2", "3">>), Str(<<"l", "i", "1", "e">>), Str(<<"d", "1", "2", "3">>),
      Str(<<"d", "2", ":", "a", "b", "l", "1", ":", "a", "1", ":", "b", "e", "e">>),
      Str(<<"l", "2", ":", "a", "b", "i", "2", "e", "l", "i", "1", "e", "i", "2", "e", "e", "e">>) }

Inputs ==
    ShortInputs \cup IntegerInputs \cup BytesInputs \cup ListInputs \cup DictInputs
        \cup TruncatedInputs \cup DeepInputs \cup TopInputs \cup TestInputs

-----------------------------------------------------------------------------
(* The entry points.  parse_integer, parse_bytes, parse_list and           *)
(* parse_dict are called on the buffer as the tests call them; parse runs  *)
(* its many0 loop one iteration per step, then eof.                        *)

NoResult == [tag |-> "None"]

\* What a caller gets: the result without the log.
Returned(r) == [f \in (DOMAIN r) \ {"log"} |-> r[f]]

Init ==
    /\ source \in Inputs
    /\ pc = "idle"
    /\ fn = "none"
    /\ i = <<>>
    /\ acc = <<>>
    /\ result = NoResult
    /\ log = <<>>

Call(name, r) ==
    /\ pc = "idle"
    /\ pc' = "done"
    /\ fn' = name
    /\ result' = Returned(r)
    /\ log' = r.log
    /\ UNCHANGED <<source, i, acc>>

ParseInteger == Call("parse_integer", parse_integer(source))

ParseBytes == Call("parse_bytes", parse_bytes(source))

ParseList == Call("parse_list", parse_list(source))

ParseDict == Call("parse_dict", parse_dict(source))

\* parse(source): enter many0 with the whole buffer and an empty Vec.
Parse ==
    /\ pc = "idle"
    /\ pc' = "many0"
    /\ fn' = "parse"
    /\ i' = source
    /\ acc' = <<>>
    /\ UNCHANGED <<source, result, log>>

\* One iteration of many0(alt((..))): Err(Error) ends the loop with what
\* was collected, any other Err is returned by parse through `?`, and an Ok
\* that consumed nothing is the Many0 error.
Many0 ==
    /\ pc = "many0"
    /\ \E r \in {alt_value(i)} :
           IF r.tag = "Error"
           THEN /\ pc' = "eof"
                /\ log' = log \o r.log \o <<Loop(source, Len(acc), i)>>
                /\ UNCHANGED <<i, acc, result>>
           ELSE IF r.tag # "Ok"
           THEN /\ pc' = "done"
                /\ result' = Returned(r)
                /\ log' = log \o r.log \o <<Loop(source, Len(acc), i)>>
                /\ UNCHANGED <<i, acc>>
           ELSE IF Len(r.rest) = Len(i)
           THEN /\ pc' = "done"
                /\ result' = Returned(Error(Nom(i, "Many0")))
                /\ log' = log \o r.log \o <<Loop(source, Len(acc), i)>>
                /\ UNCHANGED <<i, acc>>
           ELSE /\ i' = r.rest
                /\ acc' = Append(acc, r.out)
                /\ log' = log \o r.log
                /\ UNCHANGED <<pc, result>>
    /\ UNCHANGED <<source, fn>>

\* eof(source2)?; Ok(items)
Eof ==
    /\ pc = "eof"
    /\ pc' = "done"
    /\ LET r == eof(i)
       IN  result' = IF r.tag = "Ok" THEN [tag |-> "Ok", out |-> acc] ELSE Returned(r)
    /\ UNCHANGED <<source, fn, i, acc, log>>

Next == ParseInteger \/ ParseBytes \/ ParseList \/ ParseDict \/ Parse \/ Many0 \/ Eof

Spec == Init /\ [][Next]_vars

-----------------------------------------------------------------------------
(* Properties                                                              *)

Done(name) == pc = "done" /\ fn = name

AllDigits(s) == s # <<>> /\ \A k \in DOMAIN s : is_dec_digit(s[k])

\* The buffer is exactly i, then `body`, then e.
Enveloped(s) == Len(s) >= 3 /\ s[1] = Byte("i") /\ s[Len(s)] = Byte("e")

Body(s) == SubSeq(s, 2, Len(s) - 1)

\* 'i' '+' D 'e'
PlusLiteral(s) ==
    Enveloped(s) /\ Body(s)[1] = Byte("+") /\ AllDigits(Tail(Body(s)))

\* 'i' ['-'] D 'e'
SignedLiteral(s) ==
    Enveloped(s) /\ (AllDigits(Body(s)) \/ (Body(s)[1] = Byte("-") /\ AllDigits(Tail(Body(s)))))

Negative(s) == Body(s)[1] = Byte("-")

DigitsOf(s) == IF Body(s)[1] \in {Byte("-"), Byte("+")} THEN Tail(Body(s)) ELSE Body(s)

\* The digits have a redundant leading zero, or the literal is a negative
\* zero.
Redundant(s) ==
    \/ DigitsOf(s)[1] = Byte("0") /\ Len(DigitsOf(s)) > 1
    \/ DigitsOf(s)[1] = Byte("0") /\ Negative(s)

\* C2: a leading '+' in an integer literal is rejected: on 'i' '+' D 'e'
\* parse_integer returns an error, and parse returns no Integer for it.
C2_PlusRejected ==
    /\ (Done("parse_integer") /\ PlusLiteral(source)) => Failed(result)
    /\ (Done("parse") /\ PlusLiteral(source)) => Failed(result)

\* C3: on 'i' ['-'] D 'e', a redundant leading zero or a negative zero is
\* Failure(InvalidInteger) carrying the input parse_integer was given, and
\* i0e is Integer(0).
C3_LeadingZeros ==
    (Done("parse_integer") /\ SignedLiteral(source)) =>
        /\ Redundant(source) =>
               result = [tag |-> "Failure", err |-> InvalidInteger(source)]
        /\ source = Str(<<"i", "0", "e">>) =>
               result = [tag |-> "Ok", rest |-> <<>>,
                         out |-> Integer([neg |-> FALSE, mag |-> <<0, 0, 0>>])]

C3_Witness ==
    /\ Done("parse_integer")
    /\ source = Str(<<"i", "-", "0", "e">>)
    /\ result.tag = "Failure"

\* A number of n decimal digits, most significant first, padded with zeros.
RECURSIVE PadDigits(_, _)
PadDigits(n, w) ==
    IF w = 0 THEN <<>> ELSE Append(PadDigits(n \div 10, w - 1), Byte("0") + (n % 10))

RECURSIVE StripZeros(_)
StripZeros(ds) ==
    IF Len(ds) > 1 /\ ds[1] = Byte("0") THEN StripZeros(Tail(ds)) ELSE ds

\* The decimal digits of a magnitude.
ToDecimal(mag) == StripZeros(PadDigits(mag[1], 8) \o PadDigits(mag[2], 8) \o PadDigits(mag[3], 8))

\* a <= b for digit strings of one length.
LexLeq(a, b) ==
    a = b \/ \E k \in DOMAIN a : a[k] < b[k] /\ \A j \in 1..(k - 1) : a[j] = b[j]

\* The number written as the canonical digits ds, negated when neg, lies
\* in [-2^63, 2^63 - 1].
InI64Range(neg, ds) ==
    \/ Len(ds) < 19
    \/ /\ Len(ds) = 19
       /\ LexLeq(ds, IF neg THEN Digits(<<9,2,2,3,3,7,2,0,3,6,8,5,4,7,7,5,8,0,8>>)
                     ELSE Digits(<<9,2,2,3,3,7,2,0,3,6,8,5,4,7,7,5,8,0,7>>))

\* C4: on a canonical literal 'i' ['-'] D 'e', parse_integer yields the
\* Integer whose decimal digits and sign are the literal's when the number
\* is in [-2^63, 2^63 - 1], and Failure(ParseIntError) otherwise.
C4_Range ==
    (Done("parse_integer") /\ SignedLiteral(source) /\ ~Redundant(source)) =>
        IF InI64Range(Negative(source), DigitsOf(source))
        THEN /\ result.tag = "Ok"
             /\ result.rest = <<>>
             /\ result.out.t = "Integer"
             /\ ToDecimal(result.out.n.mag) = DigitsOf(source)
             /\ result.out.n.neg = (Negative(source) /\ DigitsOf(source) # Str(<<"0">>))
        ELSE /\ result.tag = "Failure"
             /\ result.err.variant = "ParseIntError"
             /\ result.err.input = <<>>

C4_Witness ==
    /\ Done("parse_integer")
    /\ source = Str(<<"i", "-">>) \o Digits(<<9,2,2,3,3,7,2,0,3,6,8,5,4,7,7,5,8,0,8>>)
                    \o Str(<<"e">>)
    /\ result.tag = "Ok"

\* D ':' R
LengthPrefixed(s) ==
    \E k \in 2..Len(s) : s[k] = Byte(":") /\ AllDigits(Take(s, k - 1))

LengthOf(s) == Take(s, (CHOOSE k \in 2..Len(s) : s[k] = Byte(":") /\ AllDigits(Take(s, k - 1))) - 1)

PayloadOf(s) == Drop(s, Len(LengthOf(s)) + 1)

\* The number a digit string denotes, or 10^3 when it has more than two
\* significant digits (no enumerated payload is that long).
Denoted(ds) ==
    LET sig == StripZeros(ds)
    IN  IF Len(sig) = 1 THEN sig[1] - Byte("0")
        ELSE IF Len(sig) = 2 THEN (sig[1] - Byte("0")) * 10 + (sig[2] - Byte("0"))
        ELSE 10 ^ 3

\* No Bytes value and no dictionary key of the tree is empty.
RECURSIVE NoEmptyBytes(_)
NoEmptyBytes(v) ==
    CASE v.t = "Bytes" -> v.b # <<>>
      [] v.t = "Integer" -> TRUE
      [] v.t = "List" -> \A k \in DOMAIN v.l : NoEmptyBytes(v.l[k])
      [] v.t = "Dictionary" -> \A key \in DOMAIN v.m : key # <<>> /\ NoEmptyBytes(v.m[key])

\* C5: on D ':' R with D denoting n, parse_bytes yields the first n bytes
\* of R and leaves the rest when 1 <= n <= |R|, is
\* Failure(InvalidBytesLength) when n = 0 and fails when n > |R|; no Bytes
\* value and no key of any decoded tree is empty.
C5_Bytes ==
    /\ (Done("parse_bytes") /\ LengthPrefixed(source)) =>
           LET n == Denoted(LengthOf(source))
               R == PayloadOf(source)
           IN  IF n = 0
               THEN result = [tag |-> "Failure", err |-> InvalidBytesLength(source)]
               ELSE IF n <= Len(R)
               THEN result = [tag |-> "Ok", rest |-> Drop(R, n), out |-> Bytes(Take(R, n))]
               ELSE Failed(result)
    /\ (pc = "done" /\ fn # "parse" /\ result.tag = "Ok") => NoEmptyBytes(result.out)
    /\ (Done("parse") /\ result.tag = "Ok") =>
           \A k \in DOMAIN result.out : NoEmptyBytes(result.out[k])

C5_Witness ==
    /\ Done("parse_bytes")
    /\ source = Str(<<"2", ":", "a", "e", "FF">>)
    /\ result.tag = "Ok"

-----------------------------------------------------------------------------
(* The grammar of the format, as the specification states it:              *)
(*   byte_string := DIGIT+ ':' <that many bytes>, not of length 0          *)
(*   integer     := 'i' ['-'] DIGIT+ 'e', canonical and in the i64 range   *)
(*   list        := 'l' value* 'e'                                         *)
(*   dictionary  := 'd' (byte_string value)* 'e', the later pair winning   *)
(*   top_level   := value*                                                 *)

NoMatch == [ok |-> FALSE]

RECURSIVE Num(_)
Num(ds) == IF ds = <<>> THEN 0 ELSE Num(Take(ds, Len(ds) - 1)) * 10 + (ds[Len(ds)] - Byte("0"))

\* The magnitude a digit string of at most 24 digits denotes.
MagOf(ds) ==
    LET padded == Rep("0", 24 - Len(ds)) \o ds
    IN  <<Num(SubSeq(padded, 1, 8)), Num(SubSeq(padded, 9, 16)), Num(SubSeq(padded, 17, 24))>>

SpecBytes(s) ==
    IF ~LengthPrefixed(s) THEN NoMatch
    ELSE LET n == Denoted(LengthOf(s))
         IN  IF n = 0 \/ n > Len(PayloadOf(s)) THEN NoMatch
             ELSE [ok |-> TRUE, val |-> Bytes(Take(PayloadOf(s), n)), rest |-> Drop(PayloadOf(s), n)]

SpecInteger(s) ==
    LET ends == {k \in 3..Len(s) : s[k] = Byte("e")}
    IN  IF ends = {} THEN NoMatch
        ELSE LET k   == CHOOSE e \in ends : \A o \in ends : e <= o
                 lit == Take(s, k)
             IN  IF /\ SignedLiteral(lit)
                    /\ ~Redundant(lit)
                    /\ InI64Range(Negative(lit), DigitsOf(lit))
                 THEN [ok |-> TRUE,
                       val |-> Integer([neg |-> Negative(lit), mag |-> MagOf(DigitsOf(lit))]),
                       rest |-> Drop(s, k)]
                 ELSE NoMatch

\* The value of the key in the last pair that has it.
LastWins(pairs) ==
    [key \in {pairs[k][1] : k \in DOMAIN pairs} |->
        pairs[CHOOSE k \in DOMAIN pairs :
                 pairs[k][1] = key /\ \A j \in DOMAIN pairs : pairs[j][1] = key => j <= k][2]]

RECURSIVE SpecValue(_)
RECURSIVE SpecItems(_, _)
RECURSIVE SpecPairs(_, _)

SpecItems(s, items) ==
    IF s = <<>> THEN NoMatch
    ELSE IF s[1] = Byte("e") THEN [ok |-> TRUE, val |-> items, rest |-> Tail(s)]
    ELSE LET v == SpecValue(s)
         IN  IF ~v.ok THEN NoMatch ELSE SpecItems(v.rest, Append(items, v.val))

\* The pairs <<key, value>> of a dictionary body, in input order.
SpecPairs(s, pairs) ==
    IF s = <<>> THEN NoMatch
    ELSE IF s[1] = Byte("e") THEN [ok |-> TRUE, val |-> pairs, rest |-> Tail(s)]
    ELSE LET key == SpecBytes(s)
         IN  IF ~key.ok THEN NoMatch
             ELSE LET v == SpecValue(key.rest)
                  IN  IF ~v.ok THEN NoMatch
                      ELSE SpecPairs(v.rest, Append(pairs, <<key.val.b, v.val>>))

SpecValue(s) ==
    IF s = <<>> THEN NoMatch
    ELSE IF is_dec_digit(s[1]) THEN SpecBytes(s)
    ELSE IF s[1] = Byte("i") THEN SpecInteger(s)
    ELSE IF s[1] = Byte("l")
         THEN LET r == SpecItems(Tail(s), <<>>)
              IN  IF r.ok THEN [r EXCEPT !.val = List(r.val)] ELSE NoMatch
    ELSE IF s[1] = Byte("d")
         THEN LET r == SpecPairs(Tail(s), <<>>)
              IN  IF r.ok THEN [r EXCEPT !.val = Dictionary(LastWins(r.val))] ELSE NoMatch
    ELSE NoMatch

RECURSIVE SpecTop(_, _)
SpecTop(s, items) ==
    IF s = <<>> THEN [ok |-> TRUE, val |-> items]
    ELSE LET v == SpecValue(s)
         IN  IF ~v.ok THEN NoMatch ELSE SpecTop(v.rest, Append(items, v.val))

\* C1: parse succeeds exactly when the buffer is a concatenation of
\* well-formed top-level values, and then returns those values in order;
\* the empty buffer yields the empty sequence.
C1_ParseIffWellFormed ==
    Done("parse") =>
        /\ (result.tag = "Ok") = SpecTop(source, <<>>).ok
        /\ result.tag = "Ok" => result.out = SpecTop(source, <<>>).val

\* What is left of C1 off the buffers that hold a '+': parse succeeds
\* exactly on the well-formed buffers and returns their values.
C1_WithoutPlus ==
    (Done("parse") /\ \A k \in DOMAIN source : source[k] # Byte("+")) =>
        /\ (result.tag = "Ok") = SpecTop(source, <<>>).ok
        /\ result.tag = "Ok" => result.out = SpecTop(source, <<>>).val

\* C6: a key that occurs in several pairs of a dictionary is no error:
\* the Dictionary has exactly the keys of the input, and each key maps to
\* the value of the last pair that has it.
C6_LastKeyWins ==
    (Done("parse_dict") /\ source # <<>> /\ source[1] = Byte("d")) =>
        LET ps == SpecPairs(Tail(source), <<>>)
        IN  ps.ok =>
              /\ result.tag = "Ok"
              /\ result.out.t = "Dictionary"
              /\ DOMAIN result.out.m = {ps.val[k][1] : k \in DOMAIN ps.val}
              /\ \A k \in DOMAIN ps.val :
                     (\A j \in (k + 1)..Len(ps.val) : ps.val[j][1] # ps.val[k][1])
                         => result.out.m[ps.val[k][1]] = ps.val[k][2]

C6_Witness ==
    /\ Done("parse_dict")
    /\ source = Str(<<"d", "1", ":", "a", "i", "1", "e", "1", ":", "a", "l", "e", "e">>)
    /\ result.tag = "Ok"
    /\ result.out.m[Str(<<"a">>)] = List(<<>>)

Dispatches == {k \in DOMAIN log : log[k].ev = "dispatch"}

Loops == {k \in DOMAIN log : log[k].ev = "loop"}

\* C7: no panic site is reached on any buffer: neither expect(), nor the
\* unreachable!() of parse_dict, nor a split past the end of a slice;
\* every call ends in Ok or in a returned error.
C7_NoPanic ==
    /\ result.tag # "Panic"
    /\ pc = "done" => result.tag \in {"Ok", "Error", "Failure"}
    /\ \A k \in Dispatches :
           /\ log[k].tag # "Panic"
           /\ \A j \in DOMAIN log[k].outs : log[k].outs[j].tag # "Panic"

C7_Witness ==
    /\ Done("parse")
    /\ source = Str(<<"l", "2", ":", "a">>)
    /\ result.tag = "Error"

Decoders == <<"parse_bytes", "parse_integer", "parse_list", "parse_dict">>

DecoderNames == {Decoders[k] : k \in DOMAIN Decoders}

\* C8: parse terminates: every decoder that succeeds consumes at least one
\* byte, every iteration of the top-level loop that goes on shortens the
\* input and adds one value, every repetition completes at most as many
\* iterations as it consumes bytes, and a list or dictionary whose
\* terminator never comes ends in an error.
C8_Progress ==
    [][ /\ (pc = "many0" /\ pc' = "many0") =>
               Len(i') < Len(i) /\ Len(acc') = Len(acc) + 1
        /\ fn' = "parse" => Len(acc') <= Len(source) - Len(i')
        /\ (pc' = "done" /\ fn' \in DecoderNames /\ result'.tag = "Ok") =>
               Len(result'.rest) < Len(source)
        /\ \A k \in DOMAIN log' :
               log'[k].ev = "loop" =>
                   /\ log'[k].iters <= log'[k].at - log'[k].stop
                   /\ log'[k].stop >= 0
        /\ ( /\ pc' = "done"
             /\ fn' \in {"parse", "parse_list", "parse_dict"}
             /\ source # <<>>
             /\ source[1] \in {Byte("l"), Byte("d")}
             /\ \A k \in DOMAIN source : source[k] # Byte("e") ) => Failed(result')
      ]_vars

C8_Witness ==
    /\ Done("parse")
    /\ source = Str(<<"l", "i", "1", "e">>)
    /\ \E k \in Loops : log[k].iters = 1 /\ log[k].stop = 0
    /\ result.tag = "Error"

\* The decoder the first byte of an input selects.
Selected(first) ==
    IF first >= Byte("0") /\ first <= Byte("9") THEN "parse_bytes"
    ELSE IF first = Byte("i") THEN "parse_integer"
    ELSE IF first = Byte("l") THEN "parse_list"
    ELSE IF first = Byte("d") THEN "parse_dict"
    ELSE "none"

\* The top-level dispatch at which parse stopped: the entry before the
\* entry of the top-level loop.
LastDispatch == log[Len(log) - 1]

\* C9 as stated: when parse fails, its error is the error of the decoder
\* that failed, kind and input position included.
C9_ErrorsUnchanged ==
    (Done("parse") /\ Failed(result)) =>
        \A j \in DOMAIN LastDispatch.tried :
            (LastDispatch.tried[j] = Selected(LastDispatch.first)
                 /\ Failed(LastDispatch.outs[j]))
              => /\ result.tag = LastDispatch.outs[j].tag
                 /\ result.err = LastDispatch.outs[j].err

\* C9 as amended: parse returns no values when it fails; a Failure raised
\* at any depth is the error parse returns, unchanged; when no decoder
\* raised a Failure, parse returns Error(Nom(rest, Eof)), rest being the
\* non-empty input left after the last complete top-level value.
C9_FailuresPropagate ==
    (Done("parse") /\ result.tag # "Ok") =>
        /\ DOMAIN result = {"tag", "err"}
        /\ LET raised == {k \in Dispatches : log[k].tag = "Failure"}
           IN  IF raised # {}
               THEN /\ result.tag = "Failure"
                    /\ \A k \in raised : log[k].err = result.err
                    /\ \E k \in raised : \E j \in DOMAIN log[k].outs :
                           log[k].outs[j] = [tag |-> "Failure", err |-> result.err]
               ELSE /\ result = [tag |-> "Error", err |-> Nom(i, "Eof")]
                    /\ i # <<>>

C9_Witness ==
    /\ Done("parse")
    /\ source = Str(<<"l", "0", ":">>)
    /\ result = [tag |-> "Failure", err |-> InvalidBytesLength(Str(<<"0", ":">>))]

\* C10 as stated: at every dispatch the decoder the first byte selects is
\* the one whose outcome the dispatch returns, and when it fails no other
\* decoder is tried after it; when the byte selects none the dispatch fails.
C10_DispatchOnce ==
    \A k \in Dispatches :
        LET d == log[k]
        IN  IF Selected(d.first) = "none" THEN d.tag = "Error"
            ELSE \E j \in DOMAIN d.tried :
                    /\ d.tried[j] = Selected(d.first)
                    /\ j = Len(d.tried)
                    /\ d.tag = d.outs[j].tag
                    /\ d.err = d.outs[j].err

\* C10 as amended: the decoders are tried in the order parse_bytes,
\* parse_integer, parse_list, parse_dict, each after the one before it
\* returned Err(Error); a decoder the first byte does not select returns
\* the no-match Err(Error) at the dispatch position; an Ok or a Failure is
\* that of the selected decoder and ends the dispatch; after an Err(Error)
\* of the selected decoder the later decoders are still tried and the
\* dispatch returns the Err(Error) of parse_dict, the last one.
C10_DispatchInOrder ==
    \A k \in Dispatches :
        LET d == log[k]
            n == Len(d.tried)
        IN  /\ n >= 1
            /\ d.tried = Take(Decoders, n)
            /\ \A j \in 1..(n - 1) : d.outs[j].tag = "Error"
            /\ \A j \in 1..n :
                   d.tried[j] # Selected(d.first) =>
                       /\ d.outs[j].tag = "Error"
                       /\ d.outs[j].err.variant = "Nom"
                       /\ d.outs[j].err.info \in {"Char", "Digit"}
                       /\ Len(d.outs[j].err.input) = d.at
            /\ d.tag = d.outs[n].tag
            /\ d.err = d.outs[n].err
            /\ IF d.outs[n].tag = "Error" THEN n = Len(Decoders)
               ELSE d.tried[n] = Selected(d.first)

C10_Witness ==
    /\ Done("parse")
    /\ source = Str(<<"2", ":", "a">>)
    /\ LastDispatch.tried = Decoders
    /\ LastDispatch.outs[1].err = Nom(Str(<<"a">>), "Eof")
    /\ LastDispatch.err = Nom(source, "Char")

====
